---------------------------- MODULE Spec2Model ----------------------------
(***************************************************************************)
(* ferris-says: say(input, max_width, writer) renders a message inside an  *)
(* ASCII speech bubble followed by a fixed mascot (src/src/lib.rs).        *)
(*                                                                         *)
(* Text (Rust str / String) is a sequence of Unicode scalar values (code   *)
(* points, as integers); the output buffer (Vec<u8>) is a sequence of      *)
(* bytes.  str::len() is the UTF-8 byte length, str::as_bytes() the UTF-8  *)
(* encoding.                                                               *)
(***************************************************************************)
EXTENDS Integers, Sequences, FiniteSets, TLC

(***************************************************************************)
(* Generic sequence helpers.                                               *)
(***************************************************************************)
Rep(x, n) == [k \in 1..n |-> x]

RECURSIVE Flatten(_)
Flatten(ss) == IF ss = <<>> THEN <<>> ELSE Head(ss) \o Flatten(Tail(ss))

MaxOfSet(S) == CHOOSE m \in S : \A x \in S : x <= m

Take(s, n) == SubSeq(s, 1, n)
Drop(s, n) == SubSeq(s, n + 1, Len(s))

\* All sequences over S of length 0..n.
SeqsUpTo(S, n) == UNION {[1..k -> S] : k \in 0..n}

(***************************************************************************)
(* Characters.                                                             *)
(***************************************************************************)
\* Unicode White_Space other than LF (10) and CR (13): the class [^\S\r\n]
\* of the regex in merge_white_spaces.
HorizontalWhitespace ==
    {9, 11, 12, 32, 133, 160, 5760} \cup (8192..8202)
        \cup {8232, 8233, 8239, 8287, 12288}

Newlines == {10, 13}

\* The width tables of the unicode-width crate, for the characters the
\* model covers; the width of any other character is left undefined.
\* Control characters (C0, DEL, C1): UnicodeWidthChar::width gives None.
ControlChars == (0..31) \cup (127..159)

\* The combining diacritical marks U+0300..U+036F.
CombiningMarks == 768..879

\* Width 0: the combining marks, soft hyphen, U+0483, zero width space.
ZeroWidthChars == CombiningMarks \cup {173, 1155, 8203}

\* Width 2: Hangul leading consonants U+1100..U+115E, U+3000..U+3003, the
\* CJK unified ideographs, the Hangul syllables, the fullwidth forms
\* U+FF01..U+FF60.
WideChars ==
    (4352..4446) \cup (12288..12291) \cup (19968..40959)
        \cup (44032..55203) \cup (65281..65376)

\* Width 1: printable ASCII, Latin-1 without the soft hyphen, Latin
\* Extended, IPA and the spacing modifier letters.
NarrowChars == (32..126) \cup (160..172) \cup (174..767)

\* The ESC character, which starts the ANSI escape sequences textwrap
\* leaves out of its widths.
HasEscape(s) == \E k \in 1..Len(s) : s[k] = 27

\* textwrap::core::ch_width(c) = UnicodeWidthChar::width(c).unwrap_or(0),
\* on the characters listed above.
ch_width(c) ==
    CASE c \in NarrowChars -> 1
      [] c \in WideChars -> 2
      [] c \in ZeroWidthChars -> 0
      [] c \in ControlChars -> 0

RECURSIVE SumChWidth(_)
SumChWidth(s) == IF s = <<>> THEN 0 ELSE ch_width(Head(s)) + SumChWidth(Tail(s))

\* textwrap::core::display_width(s): the sum of ch_width over a text
\* without escape sequences (a control character is 0 columns wide).
display_width(s) == CASE ~HasEscape(s) -> SumChWidth(s)

\* The width of one character inside a str for UnicodeWidthStr::width: a
\* control character counts 1 column (the line feed, which no line of say
\* holds, is left undefined), any other character its ch_width.
width_in_str(c) ==
    CASE c \notin ControlChars -> ch_width(c)
      [] c \in ControlChars \ {10} -> 1

\* UnicodeWidthStr::width(s), the measure of longest_line and of the
\* padding in say.
RECURSIVE StrWidth(_)
StrWidth(s) == IF s = <<>> THEN 0 ELSE width_in_str(Head(s)) + StrWidth(Tail(s))

\* char::len_utf8 and the UTF-8 encoding of one scalar value below U+10000.
len_utf8(c) == IF c < 128 THEN 1 ELSE IF c < 2048 THEN 2 ELSE 3

Utf8(c) ==
    IF c < 128 THEN <<c>>
    ELSE IF c < 2048 THEN <<192 + (c \div 64), 128 + (c % 64)>>
    ELSE <<224 + (c \div 4096), 128 + ((c \div 64) % 64), 128 + (c % 64)>>

\* str::len(): length in bytes.
RECURSIVE StrLen(_)
StrLen(s) == IF s = <<>> THEN 0 ELSE len_utf8(Head(s)) + StrLen(Tail(s))

\* str::as_bytes()
RECURSIVE as_bytes(_)
as_bytes(s) == IF s = <<>> THEN <<>> ELSE Utf8(Head(s)) \o as_bytes(Tail(s))

\* Decoding of well-formed UTF-8 (used to measure rendered rows).
RECURSIVE Utf8Decode(_)
Utf8Decode(b) ==
    IF b = <<>> THEN <<>>
    ELSE IF b[1] < 128 THEN <<b[1]>> \o Utf8Decode(Drop(b, 1))
    ELSE IF b[1] < 224
        THEN <<(b[1] - 192) * 64 + (b[2] - 128)>> \o Utf8Decode(Drop(b, 2))
    ELSE <<(b[1] - 224) * 4096 + (b[2] - 128) * 64 + (b[3] - 128)>>
             \o Utf8Decode(Drop(b, 3))

(***************************************************************************)
(* merge_white_spaces: Regex "([^\S\r\n])+" replace_all with " ".          *)
(* Matches are leftmost, greedy and non-overlapping: every maximal run of  *)
(* horizontal whitespace becomes one space.                                *)
(***************************************************************************)
RECURSIVE SkipRun(_)
SkipRun(s) ==
    IF s # <<>> /\ Head(s) \in HorizontalWhitespace THEN SkipRun(Tail(s)) ELSE s

\* Mutant: the regex without its "+", each whitespace character replaced alone.
RECURSIVE merge_each_char(_)
merge_each_char(s) ==
    IF s = <<>> THEN <<>>
    ELSE IF Head(s) \in HorizontalWhitespace
        THEN <<32>> \o merge_each_char(Tail(s))
    ELSE <<Head(s)>> \o merge_each_char(Tail(s))

\* Mutant: the regex "\s+", which also swallows line breaks.
RECURSIVE SkipAnyWs(_)
SkipAnyWs(s) ==
    IF s # <<>> /\ Head(s) \in (HorizontalWhitespace \cup Newlines)
        THEN SkipAnyWs(Tail(s)) ELSE s

RECURSIVE merge_any_ws(_)
merge_any_ws(s) ==
    IF s = <<>> THEN <<>>
    ELSE IF Head(s) \in (HorizontalWhitespace \cup Newlines)
        THEN <<32>> \o merge_any_ws(SkipAnyWs(Tail(s)))
    ELSE <<Head(s)>> \o merge_any_ws(Tail(s))

RECURSIVE merge_white_spaces(_)
merge_white_spaces(s) ==
    IF s = <<>> THEN <<>>
    ELSE IF Head(s) \in HorizontalWhitespace
        THEN <<32>> \o merge_white_spaces(SkipRun(Tail(s)))
    ELSE <<Head(s)>> \o merge_white_spaces(Tail(s))

(***************************************************************************)
(* str helpers of the standard library used by say and by textwrap.        *)
(***************************************************************************)
\* str::trim_end_matches(' ')
RECURSIVE trim_end_spaces(_)
trim_end_spaces(s) ==
    IF s # <<>> /\ s[Len(s)] = 32 THEN trim_end_spaces(Take(s, Len(s) - 1))
    ELSE s

\* str::split('\n'): the pieces between line feeds (one more than the LFs).
RECURSIVE SplitOn(_, _, _)
SplitOn(s, sep, cur) ==
    IF s = <<>> THEN <<cur>>
    ELSE IF Head(s) = sep THEN <<cur>> \o SplitOn(Tail(s), sep, <<>>)
    ELSE SplitOn(Tail(s), sep, Append(cur, Head(s)))

split_lf(s) == SplitOn(s, 10, <<>>)

\* Join lines with "\n" between them.
RECURSIVE JoinLf(_)
JoinLf(ls) ==
    IF ls = <<>> THEN <<>>
    ELSE IF Len(ls) = 1 THEN ls[1]
    ELSE ls[1] \o <<10>> \o JoinLf(Tail(ls))

\* Mutant: an empty string yields one empty line (as str::split would).
str_lines_split(s) == split_lf(s)

\* str::lines(): split at "\n", the final piece dropped when it is empty (a
\* trailing "\n" ends the last line), and a "\r" directly before the "\n"
\* removed from its line.
str_lines(s) ==
    LET pieces == split_lf(s)
        n == Len(pieces)
        kept == IF pieces[n] = <<>> THEN n - 1 ELSE n
        strip(k) ==
            LET l == pieces[k]
            IN IF k < n /\ l # <<>> /\ l[Len(l)] = 13
                   THEN Take(l, Len(l) - 1) ELSE l
    IN [k \in 1..kept |-> strip(k)]

(***************************************************************************)
(* textwrap::fill(text, width) with the crate's default Options: word      *)
(* separator by Unicode line-break properties, break_words = true, the     *)
(* optimal-fit wrap algorithm with its default penalties, no indentation.  *)
(***************************************************************************)
\* The combining marks of line-break class GL (non-breaking glue): the
\* combining grapheme joiner U+034F and the double diacritics
\* U+035C..U+0362.
GlueMarks == {847} \cup (860..866)

\* Line-break classes (UAX #14) of the characters the model covers: the
\* space, the carriage return, the exclamation mark, the combining marks
\* (glue or CM), the CJK unified ideographs and the ASCII letters; the
\* class of any other character is left undefined.
LbClass(c) ==
    CASE c = 32 -> "SP"
      [] c \in (65..90) \cup (97..122) -> "AL"
      [] c \in 19968..40959 -> "ID"
      [] c \in CombiningMarks \ GlueMarks -> "CM"
      [] c \in GlueMarks -> "GL"
      [] c = 33 -> "EX"
      [] c = 13 -> "CR"

\* LB9/LB10: a combining mark takes the class of its base, and is
\* alphabetic at the start of the text, after a space and after a carriage
\* return.
RECURSIVE ResolvedClass(_, _)
ResolvedClass(line, k) ==
    IF LbClass(line[k]) # "CM" THEN LbClass(line[k])
    ELSE IF k = 1 \/ line[k - 1] = 32 \/ line[k - 1] = 13 THEN "AL"
    ELSE ResolvedClass(line, k - 1)

\* Whether a break opportunity lies between line[k] and line[k+1]; the
\* rules apply in the order of UAX #14.
BreakAfter(line, k) ==
    LET a == line[k]
        b == line[k + 1]
    IN  IF a = 13 THEN TRUE                                   \* LB5
        ELSE IF b = 13 THEN FALSE                             \* LB6
        ELSE IF b = 32 THEN FALSE                             \* LB7
        ELSE IF LbClass(b) = "CM" /\ a # 32 THEN FALSE        \* LB9
        ELSE IF ResolvedClass(line, k) = "GL" THEN FALSE      \* LB12
        ELSE IF LbClass(b) = "GL" /\ a # 32 THEN FALSE        \* LB12a
        ELSE IF LbClass(b) = "EX" THEN FALSE                  \* LB13
        ELSE IF a = 32 THEN TRUE                              \* LB18
        ELSE IF ResolvedClass(line, k) = "AL" /\ LbClass(b) = "AL"
            THEN FALSE                                        \* LB28
        ELSE TRUE                                             \* LB31

\* Word::from(word): trailing spaces become the word's whitespace.
WordFrom(piece) ==
    LET trimmed == trim_end_spaces(piece)
    IN [word |-> trimmed,
        width |-> display_width(trimmed),
        whitespace |-> Len(piece) - Len(trimmed)]

\* WordSeparator::UnicodeBreakProperties.find_words(line)
RECURSIVE FindWordsFrom(_, _, _)
FindWordsFrom(line, start, k) ==
    IF k >= Len(line)
        THEN IF start <= Len(line)
                 THEN <<WordFrom(SubSeq(line, start, Len(line)))>>
                 ELSE <<>>
    ELSE IF BreakAfter(line, k)
        THEN <<WordFrom(SubSeq(line, start, k))>>
                 \o FindWordsFrom(line, k + 1, k + 1)
    ELSE FindWordsFrom(line, start, k + 1)

find_words(line) == FindWordsFrom(line, 1, 1)

\* Word::break_apart(line_width): cut the word before the character that
\* would make a non-empty piece wider than line_width; the last piece keeps
\* the word's whitespace.
RECURSIVE BreakApartFrom(_, _, _, _, _)
BreakApartFrom(w, line_width, offset, idx, width) ==
    IF idx > Len(w.word)
        THEN IF offset <= Len(w.word)
                 THEN <<[word |-> SubSeq(w.word, offset, Len(w.word)),
                         width |-> width,
                         whitespace |-> w.whitespace]>>
                 ELSE <<>>
    ELSE LET cw == ch_width(w.word[idx])
         IN IF width > 0 /\ width + cw > line_width
                THEN <<[word |-> SubSeq(w.word, offset, idx - 1),
                        width |-> width,
                        whitespace |-> 0]>>
                         \o BreakApartFrom(w, line_width, idx, idx + 1, cw)
                ELSE BreakApartFrom(w, line_width, offset, idx + 1, width + cw)

break_apart(w, line_width) ==
    CASE ~HasEscape(w.word) -> BreakApartFrom(w, line_width, 1, 1, 0)

\* Mutant: Options::break_words(false), over-long words are kept whole.
break_words_off(words, line_width) == words

\* core::break_words(words, line_width)
RECURSIVE break_words(_, _)
break_words(words, line_width) ==
    IF words = <<>> THEN <<>>
    ELSE (IF Head(words).width > line_width
              THEN break_apart(Head(words), line_width)
              ELSE <<Head(words)>>)
         \o break_words(Tail(words), line_width)

\* Penalties::new(): the defaults of the optimal-fit algorithm.
Penalties ==
    [nline_penalty |-> 1000,
     overflow_penalty |-> 50 * 50,
     short_last_line_fraction |-> 4,
     short_last_line_penalty |-> 25]

\* Width of fragments[i+1..j] laid out on one line (the whitespace of the
\* last fragment does not count).
RECURSIVE FragSpan(_, _, _)
FragSpan(frags, i, j) ==
    IF i >= j THEN 0
    ELSE frags[i + 1].width + frags[i + 1].whitespace + FragSpan(frags, i + 1, j)

LineCost(frags, target_width, i, j) ==
    LET line_width == FragSpan(frags, i, j) - frags[j].whitespace
    IN  Penalties.nline_penalty +
        (IF line_width > target_width
             THEN (line_width - target_width) * Penalties.overflow_penalty
         ELSE IF j < Len(frags)
             THEN (target_width - line_width) * (target_width - line_width)
         ELSE IF i + 1 = j
                 /\ Penalties.short_last_line_fraction * line_width < target_width
             THEN Penalties.short_last_line_penalty
         ELSE 0)

\* The column minima: minima[j+1] = [prev, cost] is the cheapest way to end a
\* line after fragment j (the first of equally cheap predecessors wins).
RECURSIVE BuildMinima(_, _, _)
BuildMinima(frags, target_width, acc) ==
    IF Len(acc) > Len(frags) THEN acc
    ELSE LET j == Len(acc)
             cost(i) == acc[i + 1].cost + LineCost(frags, target_width, i, j)
             best == CHOOSE i \in 0..(j - 1) :
                        \A k \in 0..(j - 1) :
                            cost(i) < cost(k) \/ (cost(i) = cost(k) /\ i <= k)
         IN BuildMinima(frags, target_width,
                        Append(acc, [prev |-> best, cost |-> cost(best)]))

RECURSIVE Backtrack(_, _, _)
Backtrack(frags, minima, pos) ==
    LET prev == minima[pos + 1].prev
        this == SubSeq(frags, prev + 1, pos)
    IN IF prev = 0 THEN <<this>>
       ELSE Append(Backtrack(frags, minima, prev), this)

\* wrap_algorithms::wrap_optimal_fit(fragments, line_widths, penalties)
wrap_optimal_fit(frags, line_width) ==
    LET target_width == IF line_width > 1 THEN line_width ELSE 1
        minima == BuildMinima(frags, target_width, <<[prev |-> 0, cost |-> 0]>>)
    IN Backtrack(frags, minima, Len(frags))

\* The text of one wrapped line: its words with their whitespace, without
\* the whitespace of the last word.
RECURSIVE LineText(_)
LineText(words) ==
    IF words = <<>> THEN <<>>
    ELSE IF Len(words) = 1 THEN words[1].word
    ELSE words[1].word \o Rep(32, words[1].whitespace) \o LineText(Tail(words))

\* wrap_single_line_slow_path
wrap_single_line_slow_path(line, width) ==
    LET broken_words == break_words(find_words(line), width)
        wrapped_words == wrap_optimal_fit(broken_words, width)
    IN [k \in 1..Len(wrapped_words) |-> LineText(wrapped_words[k])]

\* wrap_single_line: short lines are only trimmed.
wrap_single_line(line, width) ==
    IF StrLen(line) < width THEN <<trim_end_spaces(line)>>
    ELSE wrap_single_line_slow_path(line, width)

\* textwrap::wrap(text, width): every "\n"-separated line wrapped alone.
RECURSIVE WrapPieces(_, _)
WrapPieces(pieces, width) ==
    IF pieces = <<>> THEN <<>>
    ELSE wrap_single_line(Head(pieces), width) \o WrapPieces(Tail(pieces), width)

wrap(text, width) == WrapPieces(split_lf(text), width)

\* textwrap::fill(text, width)
fill(text, width) ==
    IF StrLen(text) < width /\ ~(\E k \in 1..Len(text) : text[k] = 10)
        THEN trim_end_spaces(text)
    ELSE JoinLf(wrap(text, width))

(***************************************************************************)
(* The mascot constant: the bytes of the two raw byte-string literals, the *)
(* one in use chosen by the build feature "clippy".                        *)
(***************************************************************************)
MASCOT_CLIPPY ==
    <<
      10, 32, 32, 32, 32, 32, 32, 32, 32, 92, 10, 32, 32, 32, 32, 32, 32,
      32, 32, 32, 92, 10, 32, 32, 32, 32, 32, 32, 32, 32, 32, 32, 32, 32,
      95, 95, 10, 32, 32, 32, 32, 32, 32, 32, 32, 32, 32, 32, 47, 32, 32,
      92, 10, 32, 32, 32, 32, 32, 32, 32, 32, 32, 32, 32, 124, 32, 32, 124,
      10, 32, 32, 32, 32, 32, 32, 32, 32, 32, 32, 32, 64, 32, 32, 64, 10,
      32, 32, 32, 32, 32, 32, 32, 32, 32, 32, 32, 124, 32, 32, 124, 10, 32,
      32, 32, 32, 32, 32, 32, 32, 32, 32, 32, 124, 124, 32, 124, 47, 10,
      32, 32, 32, 32, 32, 32, 32, 32, 32, 32, 32, 124, 124, 32, 124, 124,
      10, 32, 32, 32, 32, 32, 32, 32, 32, 32, 32, 32, 124, 92, 95, 47, 124,
      10, 32, 32, 32, 32, 32, 32, 32, 32, 32, 32, 32, 92, 95, 95, 95, 47, 10 >>

MASCOT_FERRIS ==
    <<
      10, 32, 32, 32, 32, 32, 32, 32, 32, 92, 10, 32, 32, 32, 32, 32, 32,
      32, 32, 32, 92, 10, 32, 32, 32, 32, 32, 32, 32, 32, 32, 32, 32, 32,
      95, 126, 94, 126, 94, 126, 95, 10, 32, 32, 32, 32, 32, 32, 32, 32,
      92, 41, 32, 47, 32, 32, 111, 32, 111, 32, 32, 92, 32, 40, 47, 10, 32,
      32, 32, 32, 32, 32, 32, 32, 32, 32, 39, 95, 32, 32, 32, 45, 32, 32,
      32, 95, 39, 10, 32, 32, 32, 32, 32, 32, 32, 32, 32, 32, 47, 32, 39,
      45, 45, 45, 45, 45, 39, 32, 92, 10 >>

MASCOT(feature_clippy) == IF feature_clippy THEN MASCOT_CLIPPY ELSE MASCOT_FERRIS

(***************************************************************************)
(* Helpers of say.                                                         *)
(***************************************************************************)
\* Mutant: the longest line measured in bytes instead of display columns.
longest_line_bytes(ls) ==
    IF ls = <<>> THEN 0 ELSE MaxOfSet({StrLen(ls[k]) : k \in 1..Len(ls)})

\* longest_line: the maximum of UnicodeWidthStr::width, 0 for no lines.
RECURSIVE longest_line(_)
longest_line(ls) ==
    IF ls = <<>> THEN 0
    ELSE LET w == StrWidth(Head(ls))
             rest == longest_line(Tail(ls))
         IN IF w > rest THEN w ELSE rest

\* Mutant: the first-line case tested before the single-line case.
LeftTokenFirstWins(line_count, i) ==
    IF i = 0 THEN <<47, 32>>
    ELSE IF line_count = 1 THEN <<60, 32>>
    ELSE IF i = line_count - 1 THEN <<92, 32>>
    ELSE <<124, 32>>

\* The left border token of row i: "< ", "/ ", "\ " or "| ".
LeftToken(line_count, i) ==
    IF line_count = 1 THEN <<60, 32>>
    ELSE IF i = 0 THEN <<47, 32>>
    ELSE IF i = line_count - 1 THEN <<92, 32>>
    ELSE <<124, 32>>

\* The right border token of row i with its line break: " >", " \", " /"
\* or " |", then "\n".
RightToken(line_count, i) ==
    IF line_count = 1 THEN <<32, 62, 10>>
    ELSE IF i = 0 THEN <<32, 92, 10>>
    ELSE IF i = line_count - 1 THEN <<32, 47, 10>>
    ELSE <<32, 124, 10>>

\* The padding loop "for _ in line_len..actual_width": an empty range when
\* line_len >= actual_width.
Padding(line_len, width) ==
    IF line_len < width THEN Rep(32, width - line_len) ELSE <<>>

(***************************************************************************)
(* Bounds of the model and the inputs drawn in the initial states.         *)
(***************************************************************************)
MaxLen == 4
MaxWidth == 5
MaxSmallLen == 2
MaxCtlLen == 3
MaxConcLen == 2
MaxNormLen == 5
MaxInterrupts == 2
MaxPartialWrites == 1

Calls == {1, 2}

\* 'a', space, line feed, a wide ideograph (U+4E2D), a combining acute
\* accent (U+0301).
Alphabet == {97, 32, 10, 20013, 769}

\* The alphabet of the messages with a control character or punctuation:
\* 'a', space, line feed, carriage return, '!'.
CtlAlphabet == {97, 32, 10, 13, 33}

\* Messages with a glue mark between two characters: an ideograph, the
\* combining grapheme joiner, an ideograph; 'a', a double diacritic
\* (U+035C), an ideograph.
GlueTexts == {<<20013, 847, 20013>>, <<97, 860, 20013>>}

\* The alphabet of the normalisation runs: also tab, carriage return and
\* no-break space.
NormAlphabet == {97, 32, 9, 10, 13, 160}

\* The alphabet of concurrent calls.
ConcAlphabet == {97, 32, 10}

\* "Hello fellow Rustaceans!", the message of the documentation example.
HelloFellowRustaceans ==
    <<
      72, 101, 108, 108, 111, 32, 102, 101, 108, 108, 111, 119, 32, 82,
      117, 115, 116, 97, 99, 101, 97, 110, 115, 33 >>

DocWidths == {24, 12, 6, 3}

\* A message of two words, "a" and a word of 39 letters, 41 columns in all,
\* and the width at which the wrapper's default penalties make one
\* overflowing line cheaper than two lines.
OverflowText == <<97, 32>> \o Rep(97, 39)

OverflowWidths == {40}

\* std::io::ErrorKind values a sink's write may fail with (besides
\* Interrupted, which write_all retries).
ErrorKinds == {"BrokenPipe", "StorageFull"}

(***************************************************************************)
(* State.  Every call of say has its own arguments, locals and sink; the   *)
(* only thing calls share is the immutable MASCOT constant.                *)
(***************************************************************************)
VARIABLES
    feature_clippy, \* cfg!(feature = "clippy"), fixed by the build
    pc,             \* per call: where the call stands
    input,          \* per call: the argument input
    max_width,      \* per call: the argument max_width
    merged,         \* per call: the local input after merge_white_spaces
    lines,          \* per call: wrapped.lines().collect()
    line_count,     \* per call: lines.len()
    actual_width,   \* per call: longest_line(&lines)
    row,            \* per call: the index i of the body loop
    write_buffer,   \* per call: the Vec<u8> holding the final output
    sink_kind,      \* per call: how the writer behaves
    buf,            \* per call: the bytes write_all still has to write
    sink,           \* per call: the bytes the writer has accepted
    write_log,      \* per call: what each call of the writer's write returned
    result,         \* per call: the value say returned
    norm            \* the normalisation run (merge_white_spaces applied twice)

vars == <<feature_clippy, pc, input, max_width, merged, lines, line_count,
          actual_width, row, write_buffer, sink_kind, buf, sink, write_log,
          result, norm>>

callVars == <<feature_clippy, pc, input, max_width, merged, lines, line_count,
              actual_width, row, write_buffer, sink_kind, buf, sink,
              write_log, result>>

NormIdle == [pc |-> "off", text |-> <<>>, once |-> <<>>, twice |-> <<>>]

\* The locals of a call before it runs, and of a call that is never made.
Blank(f) == [p \in Calls |-> f]

InitLocals ==
    /\ merged = Blank(<<>>)
    /\ lines = Blank(<<>>)
    /\ line_count = Blank(0)
    /\ actual_width = Blank(0)
    /\ row = Blank(0)
    /\ write_buffer = Blank(<<>>)
    /\ buf = Blank(<<>>)
    /\ sink = Blank(<<>>)
    /\ write_log = Blank(<<>>)
    /\ result = Blank("pending")

\* One call of the default build writing into a sink that accepts
\* everything (a Vec<u8>, a healthy stdout): all bounded inputs, the
\* shorter ones with a carriage return or an exclamation mark, the
\* messages with a glue mark, the documentation example and the message
\* that overflows.
InitOneCall ==
    /\ feature_clippy = FALSE
    /\ pc = [p \in Calls |-> IF p = 1 THEN "merge" ELSE "idle"]
    /\ \E t \in SeqsUpTo(Alphabet, MaxLen) \cup SeqsUpTo(CtlAlphabet, MaxCtlLen)
                  \cup GlueTexts \cup {HelloFellowRustaceans, OverflowText} :
       \E w \in IF t = HelloFellowRustaceans THEN DocWidths
                ELSE IF t = OverflowText THEN OverflowWidths
                ELSE 0..MaxWidth :
          /\ input = [p \in Calls |-> IF p = 1 THEN t ELSE <<>>]
          /\ max_width = [p \in Calls |-> IF p = 1 THEN w ELSE 0]
    /\ sink_kind = Blank("reliable")
    /\ InitLocals
    /\ norm = NormIdle

\* One call of the build with the feature "clippy".
InitClippyBuild ==
    /\ feature_clippy = TRUE
    /\ pc = [p \in Calls |-> IF p = 1 THEN "merge" ELSE "idle"]
    /\ \E t \in SeqsUpTo(Alphabet, MaxSmallLen) :
       \E w \in 0..MaxWidth :
          /\ input = [p \in Calls |-> IF p = 1 THEN t ELSE <<>>]
          /\ max_width = [p \in Calls |-> IF p = 1 THEN w ELSE 0]
    /\ sink_kind = Blank("reliable")
    /\ InitLocals
    /\ norm = NormIdle

\* One call writing into a sink whose write may accept only part of the
\* bytes, accept none, be interrupted, or fail.
InitFlakySink ==
    /\ feature_clippy = FALSE
    /\ pc = [p \in Calls |-> IF p = 1 THEN "merge" ELSE "idle"]
    /\ \E t \in SeqsUpTo(Alphabet, MaxSmallLen) :
          /\ input = [p \in Calls |-> IF p = 1 THEN t ELSE <<>>]
          /\ max_width = [p \in Calls |-> IF p = 1 THEN MaxWidth ELSE 0]
    /\ sink_kind = Blank("flaky")
    /\ InitLocals
    /\ norm = NormIdle

\* Two concurrent calls, each with its own input and its own sink.
InitTwoCalls ==
    /\ feature_clippy = FALSE
    /\ pc = Blank("merge")
    /\ \E t1 \in SeqsUpTo(ConcAlphabet, MaxConcLen) :
       \E t2 \in SeqsUpTo(ConcAlphabet \ {32}, MaxConcLen) :
          input = [p \in Calls |-> IF p = 1 THEN t1 ELSE t2]
    /\ \E w \in {1, MaxWidth} :
          max_width = [p \in Calls |-> IF p = 1 THEN w ELSE 2]
    /\ sink_kind = Blank("reliable")
    /\ InitLocals
    /\ norm = NormIdle

Init == InitOneCall \/ InitClippyBuild \/ InitFlakySink \/ InitTwoCalls

(***************************************************************************)
(* say, step by step.                                                      *)
(***************************************************************************)
\* let input = merge_white_spaces(input);
MergeWhiteSpaces(p) ==
    /\ pc[p] = "merge"
    /\ merged' = [merged EXCEPT ![p] = merge_white_spaces(input[p])]
    /\ pc' = [pc EXCEPT ![p] = "fill"]
    /\ UNCHANGED <<feature_clippy, input, max_width, lines, line_count,
                   actual_width, row, write_buffer, sink_kind, buf, sink,
                   write_log, result, norm>>

\* The wrapped lines of an already merged text.
WrappedLines(text, width) == str_lines(fill(text, width))

\* let wrapped = fill(..); let lines = wrapped.lines().collect();
\* let line_count = lines.len(); let actual_width = longest_line(&lines);
Fill(p) ==
    /\ pc[p] = "fill"
    /\ LET ls == WrappedLines(merged[p], max_width[p])
       IN /\ lines' = [lines EXCEPT ![p] = ls]
          /\ line_count' = [line_count EXCEPT ![p] = Len(ls)]
          /\ actual_width' = [actual_width EXCEPT ![p] = longest_line(ls)]
    /\ pc' = [pc EXCEPT ![p] = "top"]
    /\ UNCHANGED <<feature_clippy, input, max_width, merged, row,
                   write_buffer, sink_kind, buf, sink, write_log, result, norm>>

\* Mutant: one underscore too few.
TopBorderShort(width) == <<32>> \o Rep(95, width + 1) \o <<10>>

\* " ", actual_width + 2 times "_", "\n"
TopBorderBytes(width) == <<32>> \o Rep(95, width + 2) \o <<10>>

TopBorder(p) ==
    /\ pc[p] = "top"
    /\ write_buffer' =
           [write_buffer EXCEPT ![p] = @ \o TopBorderBytes(actual_width[p])]
    /\ row' = [row EXCEPT ![p] = 0]
    /\ pc' = [pc EXCEPT ![p] = IF line_count[p] = 0 THEN "bottom" ELSE "body"]
    /\ UNCHANGED <<feature_clippy, input, max_width, merged, lines,
                   line_count, actual_width, sink_kind, buf, sink, write_log,
                   result, norm>>

\* Mutant: the padding computed from the byte length of the line.
BodyRowBytesByLen(line, count, i, width) ==
    LeftToken(count, i) \o as_bytes(line)
        \o Padding(StrLen(line), width) \o RightToken(count, i)

\* One body row: left token, the line, the padding, right token.
BodyRowBytes(line, count, i, width) ==
    LeftToken(count, i) \o as_bytes(line)
        \o Padding(StrWidth(line), width) \o RightToken(count, i)

\* One iteration of "for (i, line) in lines.into_iter().enumerate()".
BodyRow(p) ==
    /\ pc[p] = "body"
    /\ row[p] < line_count[p]
    /\ write_buffer' =
           [write_buffer EXCEPT ![p] =
                @ \o BodyRowBytes(lines[p][row[p] + 1], line_count[p], row[p],
                                  actual_width[p])]
    /\ row' = [row EXCEPT ![p] = @ + 1]
    /\ pc' = [pc EXCEPT ![p] =
                 IF row[p] + 1 = line_count[p] THEN "bottom" ELSE "body"]
    /\ UNCHANGED <<feature_clippy, input, max_width, merged, lines,
                   line_count, actual_width, sink_kind, buf, sink, write_log,
                   result, norm>>

\* Mutant: the bottom border ended by a line break of its own.
BottomBorderNewline(width) == <<32>> \o Rep(45, width + 2) \o <<10>>

\* " ", actual_width + 2 times "-", no line break
BottomBorderBytes(width) == <<32>> \o Rep(45, width + 2)

BottomBorder(p) ==
    /\ pc[p] = "bottom"
    /\ write_buffer' =
           [write_buffer EXCEPT ![p] = @ \o BottomBorderBytes(actual_width[p])]
    /\ pc' = [pc EXCEPT ![p] = "mascot"]
    /\ UNCHANGED <<feature_clippy, input, max_width, merged, lines,
                   line_count, actual_width, row, sink_kind, buf, sink,
                   write_log, result, norm>>

\* write_buffer.extend_from_slice(MASCOT); then writer.write_all is entered
\* with the whole buffer.
Mascot(p) ==
    /\ pc[p] = "mascot"
    /\ write_buffer' =
           [write_buffer EXCEPT ![p] = @ \o MASCOT(feature_clippy)]
    /\ buf' = [buf EXCEPT ![p] = write_buffer'[p]]
    /\ pc' = [pc EXCEPT ![p] = "write_all"]
    /\ UNCHANGED <<feature_clippy, input, max_width, merged, lines,
                   line_count, actual_width, row, sink_kind, sink, write_log,
                   result, norm>>

(***************************************************************************)
(* writer.write_all(&write_buffer): the provided method of std::io::Write, *)
(* which calls the writer's write until the buffer is empty.  A write that *)
(* fails with ErrorKind::Interrupted is tried again; a write that accepts  *)
(* no byte ends write_all with an error of kind WriteZero; any other error *)
(* is returned as it is.  say returns what write_all returns.              *)
(***************************************************************************)
\* Mutant: every call writes into the sink of call 1.
writer_shared(p) == 1

\* The sink a call writes into: its own argument writer.
writer(p) == p

\* Mutant: the error of write_all dropped and Ok(()) returned.
say_swallows(r) == "Ok"

\* The tail expression of say: the result of write_all, unchanged.
say_returns(r) == r

Interrupts(log) == Cardinality({k \in 1..Len(log) : log[k].kind = "Interrupted"})
Partials(log) ==
    Cardinality({k \in 1..Len(log) : log[k].kind = "Ok" /\ log[k].n = 1})

\* The byte counts the writer's write may accept: the whole buffer, or (a
\* flaky sink, a bounded number of times) only its first byte.
AcceptCounts(p) ==
    {Len(buf[p])} \cup
        (IF sink_kind[p] = "flaky" /\ Partials(write_log[p]) < MaxPartialWrites
             THEN {1} ELSE {})

\* while !buf.is_empty(): Ok(n) => buf = &buf[n..]
WriteAccept(p) ==
    /\ pc[p] = "write_all"
    /\ buf[p] # <<>>
    /\ \E n \in AcceptCounts(p) :
          /\ sink' = [sink EXCEPT ![writer(p)] = @ \o Take(buf[p], n)]
          /\ buf' = [buf EXCEPT ![p] = Drop(@, n)]
          /\ write_log' = [write_log EXCEPT ![p] =
                              Append(@, [kind |-> "Ok", n |-> n])]
    /\ UNCHANGED <<feature_clippy, pc, input, max_width, merged, lines,
                   line_count, actual_width, row, write_buffer, sink_kind,
                   result, norm>>

\* Ok(0) => return Err(WriteZero)
WriteZero(p) ==
    /\ pc[p] = "write_all"
    /\ buf[p] # <<>>
    /\ sink_kind[p] = "flaky"
    /\ write_log' = [write_log EXCEPT ![p] = Append(@, [kind |-> "Ok", n |-> 0])]
    /\ result' = [result EXCEPT ![p] = say_returns("WriteZero")]
    /\ pc' = [pc EXCEPT ![p] = "done"]
    /\ UNCHANGED <<feature_clippy, input, max_width, merged, lines,
                   line_count, actual_width, row, write_buffer, sink_kind,
                   buf, sink, norm>>

\* Err(ref e) if e.is_interrupted() => {}
WriteInterrupted(p) ==
    /\ pc[p] = "write_all"
    /\ buf[p] # <<>>
    /\ sink_kind[p] = "flaky"
    /\ Interrupts(write_log[p]) < MaxInterrupts
    /\ write_log' = [write_log EXCEPT ![p] =
                        Append(@, [kind |-> "Interrupted", n |-> 0])]
    /\ UNCHANGED <<feature_clippy, pc, input, max_width, merged, lines,
                   line_count, actual_width, row, write_buffer, sink_kind,
                   buf, sink, result, norm>>

\* Err(e) => return Err(e)
WriteError(p) ==
    /\ pc[p] = "write_all"
    /\ buf[p] # <<>>
    /\ sink_kind[p] = "flaky"
    /\ \E e \in ErrorKinds :
          /\ write_log' = [write_log EXCEPT ![p] = Append(@, [kind |-> e, n |-> 0])]
          /\ result' = [result EXCEPT ![p] = say_returns(e)]
    /\ pc' = [pc EXCEPT ![p] = "done"]
    /\ UNCHANGED <<feature_clippy, input, max_width, merged, lines,
                   line_count, actual_width, row, write_buffer, sink_kind,
                   buf, sink, norm>>

\* The loop ends with the buffer empty: Ok(())
WriteAllReturns(p) ==
    /\ pc[p] = "write_all"
    /\ buf[p] = <<>>
    /\ result' = [result EXCEPT ![p] = say_returns("Ok")]
    /\ pc' = [pc EXCEPT ![p] = "done"]
    /\ UNCHANGED <<feature_clippy, input, max_width, merged, lines,
                   line_count, actual_width, row, write_buffer, sink_kind,
                   buf, sink, write_log, norm>>

Next ==
    \E p \in Calls :
        \/ MergeWhiteSpaces(p)
        \/ Fill(p)
        \/ TopBorder(p)
        \/ BodyRow(p)
        \/ BottomBorder(p)
        \/ Mascot(p)
        \/ WriteAccept(p)
        \/ WriteZero(p)
        \/ WriteInterrupted(p)
        \/ WriteError(p)
        \/ WriteAllReturns(p)

Spec == Init /\ [][Next]_vars

(***************************************************************************)
(* The normalisation run: merge_white_spaces applied to a text, and then   *)
(* to its own result.                                                      *)
(***************************************************************************)
InitNorm ==
    /\ feature_clippy = FALSE
    /\ pc = Blank("idle")
    /\ input = Blank(<<>>)
    /\ max_width = Blank(0)
    /\ sink_kind = Blank("reliable")
    /\ InitLocals
    /\ \E t \in SeqsUpTo(NormAlphabet, MaxNormLen) :
          norm = [pc |-> "text", text |-> t, once |-> <<>>, twice |-> <<>>]

NormalizeOnce ==
    /\ norm.pc = "text"
    /\ norm' = [norm EXCEPT !.pc = "once", !.once = merge_white_spaces(norm.text)]
    /\ UNCHANGED callVars

NormalizeAgain ==
    /\ norm.pc = "once"
    /\ norm' = [norm EXCEPT !.pc = "twice", !.twice = merge_white_spaces(norm.once)]
    /\ UNCHANGED callVars

NextNorm == NormalizeOnce \/ NormalizeAgain

SpecNorm == InitNorm /\ [][NextNorm]_vars

(***************************************************************************)
(* Reading a rendered buffer back.                                         *)
(***************************************************************************)
\* The call has assembled its whole output.
Rendered(p) == pc[p] \in {"write_all", "done"}

\* The maximum width (UnicodeWidthStr::width) over the lines, 0 without
\* lines.
WidthOf(ls) == MaxOfSet({0} \cup {StrWidth(ls[k]) : k \in 1..Len(ls)})

\* The k-th "\n"-separated row of an output: row 1 is the top border, rows
\* 2..n+1 the body rows, row n+2 the bottom border (ended by the line break
\* the mascot starts with).
OutRow(out, k) ==
    LET lf == {x \in 1..Len(out) : out[x] = 10}
        nth(j) == CHOOSE x \in lf : Cardinality({y \in lf : y < x}) = j - 1
        first == IF k = 1 THEN 1 ELSE nth(k - 1) + 1
    IN SubSeq(out, first, nth(k) - 1)

\* The rendered box of a call: its output up to and with the line break the
\* mascot starts with.
Box(p) ==
    Take(write_buffer[p], Len(write_buffer[p]) - Len(MASCOT(feature_clippy)) + 1)

Count(b, x) == Cardinality({k \in 1..Len(b) : b[k] = x})

LastTwo(b) == SubSeq(b, Len(b) - 1, Len(b))

C1_Layout(p) ==
    LET out == write_buffer[p]
        w == WidthOf(lines[p])
        n == Len(lines[p])
        top == <<32>> \o Rep(95, w + 2) \o <<10>>
        bottom == <<32>> \o Rep(45, w + 2)
        M == MASCOT(feature_clippy)
        bodyLen == Len(out) - Len(top) - Len(bottom) - Len(M)
        body == SubSeq(out, Len(top) + 1, Len(top) + bodyLen)
    IN  /\ bodyLen >= 0
        /\ Take(out, Len(top)) = top
        /\ Drop(out, Len(top) + bodyLen) = bottom \o M
        /\ M[1] = 10 /\ M[Len(M)] = 10
        /\ Count(body, 10) = n
        /\ n > 0 => body[bodyLen] = 10
        /\ \A k \in 1..n :
              LET text == as_bytes(lines[p][k])
              IN SubSeq(OutRow(Box(p), k + 1), 3, 2 + Len(text)) = text
        /\ n = 1 =>
              LET L == lines[p][1]
                  lw == StrWidth(L)
              IN out = <<32>> \o Rep(95, lw + 2) \o <<10, 60, 32>> \o as_bytes(L)
                         \o <<32, 62, 10, 32>> \o Rep(45, lw + 2) \o M
        /\ (input[p] = HelloFellowRustaceans /\ max_width[p] = 24) =>
              out = <<32>> \o Rep(95, 26) \o <<10, 60, 32>>
                      \o HelloFellowRustaceans
                      \o <<32, 62, 10, 32>> \o Rep(45, 26) \o M

(***************************************************************************)
(* C1: the bytes say hands to the sink are: a space, actual_width + 2      *)
(* underscores, a line break; one body row per wrapped line, in order,     *)
(* each ending in a line break; a space and actual_width + 2 dashes with   *)
(* no line break; then the mascot verbatim (which starts and ends with a   *)
(* line break).  A single wrapped line L of width w gives                  *)
(* " " + "_"*(w+2) + "\n< " + L + " >\n " + "-"*(w+2) + MASCOT, and the    *)
(* documentation example at width 24 gives its documented output.          *)
(***************************************************************************)
C1_OutputBytes ==
    \A p \in Calls :
        /\ Rendered(p) => C1_Layout(p)
        /\ (pc[p] = "done" /\ result[p] = "Ok") => sink[p] = write_buffer[p]

C1_Witness ==
    /\ pc[1] = "done"
    /\ result[1] = "Ok"
    /\ input[1] = HelloFellowRustaceans
    /\ max_width[1] = 24
    /\ line_count[1] = 1
    /\ Len(sink[1]) = 84 + Len(MASCOT_FERRIS)

C2_RowAligned(p, k) ==
    LET w == WidthOf(lines[p])
        line == lines[p][k]
        chars == Utf8Decode(OutRow(Box(p), k + 1))
        pad == w - StrWidth(line)
    IN  /\ pad >= 0
        /\ Len(chars) = 2 + Len(line) + pad + 2
        /\ SubSeq(chars, 3, 2 + Len(line)) = line
        /\ SubSeq(chars, 3 + Len(line), 2 + Len(line) + pad) = Rep(32, pad)
        /\ StrWidth(Take(chars, 2)) = 2
        /\ StrWidth(LastTwo(chars)) = 2
        /\ StrWidth(Take(chars, Len(chars) - 2)) = 2 + w
        /\ StrWidth(chars) = w + 4

(***************************************************************************)
(* C2: for max_width >= 1 every body row is a 2-column left token, the     *)
(* line, exactly actual_width - display_width(line) spaces (never a        *)
(* negative count) and a 2-column right token; so every right token starts *)
(* at display column 2 + actual_width and every body row is                *)
(* actual_width + 4 columns wide (wide characters 2, combining marks 0).   *)
(***************************************************************************)
C2_WidthAlignment ==
    \A p \in Calls :
        (Rendered(p) /\ max_width[p] >= 1) =>
            \A k \in 1..Len(lines[p]) : C2_RowAligned(p, k)

\* Rows of different display width, one of them with a wide character and
\* one with a combining mark.
C2_Witness ==
    /\ pc[1] = "done"
    /\ max_width[1] >= 1
    /\ Len(lines[1]) >= 2
    /\ \E j, k \in 1..Len(lines[1]) :
          /\ StrWidth(lines[1][j]) < StrWidth(lines[1][k])
          /\ 20013 \in {lines[1][k][x] : x \in 1..Len(lines[1][k])}
          /\ 769 \in {lines[1][j][x] : x \in 1..Len(lines[1][j])}

(***************************************************************************)
(* C3: the top border holds actual_width + 2 underscores and the bottom    *)
(* border as many dashes, where actual_width is the maximum display width  *)
(* over the wrapped lines and 0 when there are none.                       *)
(***************************************************************************)
C3_BorderLength ==
    \A p \in Calls :
        Rendered(p) =>
            LET n == Len(lines[p])
                top == OutRow(Box(p), 1)
                bottom == OutRow(Box(p), n + 2)
                w == WidthOf(lines[p])
            IN  /\ actual_width[p] = w
                /\ (lines[p] = <<>> => actual_width[p] = 0)
                /\ line_count[p] = n
                /\ Count(top, 95) = w + 2
                /\ Count(bottom, 45) = w + 2
                /\ Count(top, 95) = Count(bottom, 45)
                /\ Len(top) = w + 3
                /\ Len(bottom) = w + 3

\* A box around several lines of different width.
C3_Witness ==
    /\ pc[1] = "done"
    /\ Len(lines[1]) >= 2
    /\ actual_width[1] >= 2
    /\ \E k \in 1..Len(lines[1]) : StrWidth(lines[1][k]) < actual_width[1]

C4_RowTokens(p, k) ==
    LET r == OutRow(Box(p), k + 1)
        n == Len(lines[p])
        left == Take(r, 2)
        right == LastTwo(r)
    IN  /\ n = 1 => left = <<60, 32>> /\ right = <<32, 62>>
        /\ n >= 2 =>
              /\ left # <<60, 32>>
              /\ right # <<32, 62>>
              /\ k = 1 => left = <<47, 32>> /\ right = <<32, 92>>
              /\ k = n => left = <<92, 32>> /\ right = <<32, 47>>
              /\ (1 < k /\ k < n) => left = <<124, 32>> /\ right = <<32, 124>>

(***************************************************************************)
(* C4: one wrapped line is rendered with "< " and " >"; two or more lines  *)
(* never use these, but "/ " and " \" on row 0, "\ " and " /" on the last  *)
(* row and "| " and " |" on the rows between; the two tokens of a row come *)
(* from the same case.                                                     *)
(***************************************************************************)
C4_BracketChoice ==
    \A p \in Calls :
        Rendered(p) => \A k \in 1..Len(lines[p]) : C4_RowTokens(p, k)

\* A box with a first, a middle and a last row.
C4_Witness ==
    /\ pc[1] = "done"
    /\ Len(lines[1]) >= 3
    /\ Take(OutRow(Box(1), 3), 2) = <<124, 32>>

(***************************************************************************)
(* C5 as the specification states it: the empty input is rendered as a box *)
(* of actual_width 0 with exactly one body row, "<  >".                    *)
(***************************************************************************)
C5_EmptyInputOneRow ==
    \A p \in Calls :
        (Rendered(p) /\ pc[p] # "idle" /\ input[p] = <<>>) =>
            write_buffer[p] =
                <<32, 95, 95, 10, 60, 32, 32, 62, 10, 32, 45, 45>>
                    \o MASCOT(feature_clippy)

(***************************************************************************)
(* C5 amended: the empty input is rendered as a box of actual_width 0      *)
(* (" __" over " --") with no body row at all, for every max_width.        *)
(***************************************************************************)
C5_EmptyInputNoRow ==
    \A p \in Calls :
        (Rendered(p) /\ input[p] = <<>>) =>
            /\ lines[p] = <<>>
            /\ line_count[p] = 0
            /\ actual_width[p] = 0
            /\ write_buffer[p] =
                   <<32, 95, 95, 10, 32, 45, 45>> \o MASCOT(feature_clippy)

C5_Witness ==
    /\ pc[1] = "done"
    /\ input[1] = <<>>
    /\ result[1] = "Ok"
    /\ Len(sink[1]) = 7 + Len(MASCOT(feature_clippy))

(***************************************************************************)
(* Reading a normalised text against its source.                           *)
(***************************************************************************)
NotHorizontal(c) == c \notin HorizontalWhitespace
IsNewline(c) == c \in Newlines

\* The text without its horizontal whitespace: the line breaks and the
\* other characters, in order.
Squash(s) == SelectSeq(s, NotHorizontal)

\* The number of horizontal whitespace characters standing after exactly g
\* other characters.
Gap(s, g) ==
    Cardinality({k \in 1..Len(s) :
                    /\ s[k] \in HorizontalWhitespace
                    /\ Cardinality({j \in 1..(k - 1) : NotHorizontal(s[j])}) = g})

Normalised(stage) == norm.pc \in stage

(***************************************************************************)
(* C7: merge_white_spaces leaves every line feed and carriage return in    *)
(* place: the result holds the same LF/CR characters in the same order     *)
(* with the same other text between them; adjacent line breaks are neither *)
(* merged nor turned into spaces; a run of horizontal whitespace next to a *)
(* line break becomes one space on its own side of it.                     *)
(***************************************************************************)
C7_NewlinePreservation ==
    Normalised({"once", "twice"}) =>
        LET t == norm.text
            o == norm.once
        IN  /\ SelectSeq(o, IsNewline) = SelectSeq(t, IsNewline)
            /\ Squash(o) = Squash(t)
            /\ \A g \in 0..Len(Squash(t)) :
                  Gap(o, g) = IF Gap(t, g) > 0 THEN 1 ELSE 0
            /\ \A k \in 1..Len(o) : o[k] \in HorizontalWhitespace => o[k] = 32
            /\ Cardinality({k \in 1..(Len(o) - 1) : IsNewline(o[k]) /\ IsNewline(o[k + 1])})
                   = Cardinality({k \in 1..(Len(t) - 1) : IsNewline(t[k]) /\ IsNewline(t[k + 1])})

\* Whitespace runs on both sides of two adjacent line feeds.
C7_Witness ==
    /\ norm.pc = "once"
    /\ norm.text = <<9, 32, 10, 10, 160>>
    /\ norm.once = <<32, 10, 10, 32>>

(***************************************************************************)
(* C8: merge_white_spaces is idempotent: its result holds no horizontal    *)
(* whitespace but the ASCII space and no two adjacent spaces, so merging   *)
(* it again returns it unchanged; the empty text gives the empty text.     *)
(***************************************************************************)
C8_Idempotent ==
    /\ Normalised({"twice"}) => norm.twice = norm.once
    /\ Normalised({"once", "twice"}) =>
          LET o == norm.once
          IN  /\ \A k \in 1..Len(o) : o[k] \in HorizontalWhitespace => o[k] = 32
              /\ \A k \in 1..(Len(o) - 1) : ~(o[k] = 32 /\ o[k + 1] = 32)
              /\ norm.text = <<>> => o = <<>>

\* A text the first pass changes: a run of tab, space and no-break space.
C8_Witness ==
    /\ norm.pc = "twice"
    /\ norm.text = <<97, 9, 32, 160, 97>>
    /\ norm.once = <<97, 32, 97>>
    /\ norm.twice = <<97, 32, 97>>

(***************************************************************************)
(* Reading the wrapped lines against the merged text.                      *)
(***************************************************************************)
\* The call has wrapped its text.
Wrapped(p) == pc[p] \in {"top", "body", "bottom", "mascot", "write_all", "done"}

\* A character other than the space, the line feed and the carriage return.
IsInk(c) == c # 32 /\ c # 10 /\ c # 13

\* The whitespace-separated words of a text: its maximal runs of
\* characters other than space, line feed and carriage return.
WordsOf(t) ==
    LET starts == {a \in 1..Len(t) : IsInk(t[a]) /\ (a = 1 \/ ~IsInk(t[a - 1]))}
        ends == {b \in 1..Len(t) : IsInk(t[b]) /\ (b = Len(t) \/ ~IsInk(t[b + 1]))}
        end(a) == CHOOSE b \in ends : b >= a /\ \A c \in ends : c >= a => b <= c
    IN {SubSeq(t, a, end(a)) : a \in starts}

\* The characters of positive width in a line.
Columns(line) == Cardinality({k \in 1..Len(line) : ch_width(line[k]) > 0})

OverlongWords(p) ==
    IF display_width(merged[p]) <= max_width[p] THEN {}
    ELSE {w \in WordsOf(merged[p]) : display_width(w) > max_width[p]}

\* The word w stands whole, as consecutive characters, on the line.
Contains(line, w) ==
    \E a \in 1..(Len(line) - Len(w) + 1) : SubSeq(line, a, a + Len(w) - 1) = w

C6_EveryWriteErrorSurfaces ==
    \A p \in Calls :
        /\ (pc[p] = "done" /\ result[p] # "Ok") =>
              \E k \in 1..Len(write_log[p]) :
                  write_log[p][k].kind # "Ok" /\ write_log[p][k].kind = result[p]
        /\ \A k \in 1..Len(write_log[p]) :
              write_log[p][k].kind # "Ok" =>
                  /\ k = Len(write_log[p])
                  /\ pc[p] = "done"
                  /\ result[p] = write_log[p][k].kind
        /\ (pc[p] = "done" /\ sink[p] = write_buffer[p]) => result[p] = "Ok"

(***************************************************************************)
(* C6 amended: say returns what the sink's write_all returns, unchanged.   *)
(* It returns Err when a write fails with an error other than Interrupted  *)
(* (that very error, at once, no retry) or when a write accepts no byte    *)
(* (an error of kind WriteZero); a write that fails with Interrupted is    *)
(* tried again and its error does not reach the caller; nothing before     *)
(* write_all produces an error; when the sink accepts all bytes say        *)
(* returns Ok(()).                                                         *)
(***************************************************************************)
C6_WriteAllResult ==
    \A p \in Calls :
        LET log == write_log[p]
            n == Len(log)
        IN  /\ pc[p] # "done" <=> result[p] = "pending"
            /\ ~Rendered(p) => log = <<>>
            /\ \A k \in 1..n :
                  /\ log[k].kind \in ErrorKinds =>
                        k = n /\ pc[p] = "done" /\ result[p] = log[k].kind
                  /\ (log[k].kind = "Ok" /\ log[k].n = 0) =>
                        k = n /\ pc[p] = "done" /\ result[p] = "WriteZero"
                  /\ (log[k].kind = "Interrupted" /\ pc[p] = "done") =>
                        k < n /\ result[p] # "Interrupted"
            /\ (pc[p] = "done" /\ result[p] # "Ok") =>
                  /\ n > 0
                  /\ \/ log[n].kind \in ErrorKinds /\ result[p] = log[n].kind
                     \/ log[n] = [kind |-> "Ok", n |-> 0] /\ result[p] = "WriteZero"
                  /\ sink[p] # write_buffer[p]
            /\ (pc[p] = "done" /\ sink[p] = write_buffer[p]) => result[p] = "Ok"
            /\ (pc[p] = "done" /\ result[p] = "Ok") => sink[p] = write_buffer[p]
            /\ Rendered(p) => sink[p] \o buf[p] = write_buffer[p]

\* An interrupted write, a partial write, then a failing one.
C6_Witness ==
    /\ pc[1] = "done"
    /\ result[1] = "BrokenPipe"
    /\ write_log[1] = <<[kind |-> "Interrupted", n |-> 0],
                        [kind |-> "Ok", n |-> 1],
                        [kind |-> "BrokenPipe", n |-> 0]>>
    /\ sink[1] = <<32>>

\* The output of one call run alone, as a function of its arguments.
SayAlone(t, w) ==
    LET ls == WrappedLines(merge_white_spaces(t), w)
        aw == longest_line(ls)
    IN  TopBorderBytes(aw)
            \o Flatten([k \in 1..Len(ls) |-> BodyRowBytes(ls[k], Len(ls), k - 1, aw)])
            \o BottomBorderBytes(aw)
            \o MASCOT(feature_clippy)

(***************************************************************************)
(* C10: say keeps and shares no state: in every interleaving of calls that *)
(* each have their own input and sink, the bytes a sink receives are the   *)
(* bytes its call produces from (input, max_width) when run alone, and a   *)
(* sink receives bytes from its own call only.                             *)
(***************************************************************************)
C10_Reentrant ==
    \A p \in Calls :
        /\ pc[p] = "idle" => sink[p] = <<>>
        /\ (pc[p] = "done" /\ result[p] = "Ok") => sink[p] # <<>>
        /\ sink[p] # <<>> =>
              LET alone == SayAlone(input[p], max_width[p])
              IN  /\ Len(sink[p]) <= Len(alone)
                  /\ sink[p] = Take(alone, Len(sink[p]))
                  /\ (pc[p] = "done" /\ result[p] = "Ok") => sink[p] = alone

\* Two calls with different inputs have both returned.
C10_Witness ==
    /\ pc[1] = "done" /\ pc[2] = "done"
    /\ result[1] = "Ok" /\ result[2] = "Ok"
    /\ input[1] = <<97, 32>>
    /\ input[2] = <<10, 97>>
    /\ sink[1] # sink[2]
    /\ sink[1] # <<>> /\ sink[2] # <<>>

=============================================================================
